---- MODULE Spec2Model ----
(***************************************************************************)
(* FaultNote: the application state (src/src/app.rs), the key dispatcher   *)
(* (src/src/events.rs) and the start-up and main loop (src/src/main.rs).   *)
(*                                                                         *)
(* A Rust String is a sequence of one-character strings.  Option<T> is a   *)
(* sequence of length 0 (None) or 1 (Some).  A status text is a sequence   *)
(* of tokens, so that a format!() prefix is a real concatenation.          *)
(***************************************************************************)
EXTENDS Integers, Sequences, FiniteSets, TLC

VARIABLES
    app,            \* the AppState record (app.rs:35-57)
    pc,             \* where the program is: "main", "loop", "await"; "api"/"fn"/"fetch"/"fetched" in the harness specifications
    notion_client,  \* Option<NotionClient> of main.rs:24, as "is Some"
    inflight,       \* the append call the dispatcher is suspended on: None or Some(<<page_id, entry>>)
    response,       \* what the collaborator answered to the call in flight, "none" until it answers
    ret,            \* the value returned by the last query called by the harness specifications
    fetch           \* fetch_pages (client.rs:216-263): its locals and the result set the collaborator lists

vars == <<app, pc, notion_client, inflight, response, ret, fetch>>

-----------------------------------------------------------------------------
(* Bounds of the model. *)

\* Characters held by the four buffers together in Spec.
MaxChars == 3

\* Characters held by the four buffers together in SpecApi.
MaxApiChars == 2

\* Characters held by the four buffers together in the states SpecFn starts from.
MaxFnChars == 5

\* Results the collaborator's search lists in all.
MaxResults == 3

\* Results one response of the search carries at most.
MaxChunk == 2

\* Responses that say has_more and carry no next_cursor, in one fetch_pages.
MaxFaults == 1

\* Characters held by the four buffers together in the states SpecBlock starts from.
MaxBlockChars == 3

(* Program constants. *)

\* app.rs:157
MAX_INPUTS == 4

-----------------------------------------------------------------------------
(* Values. *)

None == <<>>
Some(v) == <<v>>

\* fetch_pages has not been called.
NoFetch == <<>>

\* char::is_whitespace on the characters the model types
Whitespace == {" ", "\n"}

\* The characters a KeyCode::Char carries while editing.  "q" is the quit key
\* of Normal mode and plain text in Editing mode; the whitespace the model
\* types is the newline of the Enter key.
EditChars == {"q"}

\* The characters a KeyCode::Char carries in Normal mode: the bound commands
\* and one unbound character.
NormalChars == {"q", "Q", "k", "j", "e", "i", "c", "x"}

\* Characters of the strings SpecFn starts from.
FnChars == {"q", " ", "\n"}

Strs(alphabet, n) == UNION {[1..k -> alphabet] : k \in 0..n}

\* The status glyphs of set_success and set_error (app.rs:331, app.rs:337):
\* U+2713 CHECK MARK and U+2717 BALLOT X.
CheckGlyph == "U+2713"
CrossGlyph == "U+2717"

PageInfo(id, title) == [id |-> id, title |-> title]

\* main.rs:32-41
DemoPages ==
    << PageInfo("demo-1", "Demo: Project Errors"),
       PageInfo("demo-2", "Demo: Bug Tracker") >>

\* What fetch_pages may return (main.rs:49-50): the empty list, one page,
\* and a list of three pages with a duplicate.
FetchedLists ==
    { <<>>,
      << PageInfo("id-a", "A") >>,
      << PageInfo("id-a", "A"), PageInfo("id-b", "B"), PageInfo("id-a", "A") >> }

PageLists == FetchedLists \cup {DemoPages}

\* The failures of the append call.
Failures == {"network", "auth", "notfound", "timeout"}

-----------------------------------------------------------------------------
(* str::trim *)

RECURSIVE trim_start(_)
trim_start(s) ==
    IF s = <<>> THEN s
    ELSE IF Head(s) \in Whitespace THEN trim_start(Tail(s)) ELSE s

RECURSIVE trim_end(_)
trim_end(s) ==
    IF s = <<>> THEN s
    ELSE IF s[Len(s)] \in Whitespace THEN trim_end(SubSeq(s, 1, Len(s) - 1)) ELSE s

trim(s) == trim_end(trim_start(s))

is_empty(s) == Len(s) = 0

-----------------------------------------------------------------------------
(* AppState (app.rs).  Every mutator is an operator from the state before  *)
(* the call to the state after it.                                         *)

new_input_focus ==
    [ running |-> TRUE,
      current_focus |-> "InputSection",
      input_mode |-> "Normal",
      notion_pages |-> <<>>,
      selected_page_index |-> 0,
      active_input_field |-> 0,
      error_input |-> <<>>,
      problem_input |-> <<>>,
      solution_input |-> <<>>,
      code_input |-> <<>>,
      status_message |-> None,
      is_loading |-> FALSE ]

new ==
    [ running |-> TRUE,
      current_focus |-> "PageList",
      input_mode |-> "Normal",
      notion_pages |-> <<>>,
      selected_page_index |-> 0,
      active_input_field |-> 0,
      error_input |-> <<>>,
      problem_input |-> <<>>,
      solution_input |-> <<>>,
      code_input |-> <<>>,
      status_message |-> None,
      is_loading |-> FALSE ]

quit(a) == [a EXCEPT !.running = FALSE]

is_running(a) == a.running

toggle_focus_keep_mode(a) ==
    IF a.current_focus = "PageList"
    THEN [a EXCEPT !.current_focus = "InputSection"]
    ELSE [a EXCEPT !.current_focus = "PageList"]

toggle_focus(a) ==
    IF a.current_focus = "PageList"
    THEN [a EXCEPT !.current_focus = "InputSection"]
    ELSE [a EXCEPT !.current_focus = "PageList", !.input_mode = "Normal"]

is_page_list_focused(a) == a.current_focus = "PageList"

is_input_section_focused(a) == a.current_focus = "InputSection"

next_page_no_wrap(a) ==
    IF is_empty(a.notion_pages) THEN a
    ELSE [a EXCEPT !.selected_page_index = a.selected_page_index + 1]

next_page_clamped(a) ==
    IF is_empty(a.notion_pages) THEN a
    ELSE LET total == Len(a.notion_pages)
         IN  IF a.selected_page_index + 1 < total
             THEN [a EXCEPT !.selected_page_index = a.selected_page_index + 1]
             ELSE a

next_page(a) ==
    IF is_empty(a.notion_pages) THEN a
    ELSE LET total == Len(a.notion_pages)
         IN  [a EXCEPT !.selected_page_index = (a.selected_page_index + 1) % total]

\* a previous_page without the guard on the empty list
previous_page_unguarded(a) ==
    IF a.selected_page_index = 0
    THEN [a EXCEPT !.selected_page_index = Len(a.notion_pages) - 1]
    ELSE IF a.selected_page_index > 0
    THEN [a EXCEPT !.selected_page_index = a.selected_page_index - 1]
    ELSE a

previous_page_clamped(a) ==
    IF is_empty(a.notion_pages) THEN a
    ELSE IF a.selected_page_index = 0 THEN a
    ELSE [a EXCEPT !.selected_page_index = a.selected_page_index - 1]

previous_page(a) ==
    IF is_empty(a.notion_pages) THEN a
    ELSE LET total == Len(a.notion_pages)
         IN  IF a.selected_page_index = 0
             THEN [a EXCEPT !.selected_page_index = total - 1]
             ELSE [a EXCEPT !.selected_page_index = a.selected_page_index - 1]

\* Vec::get: indices are 0-based in the code, 1-based in the sequence
get_selected_page(a) ==
    IF a.selected_page_index < Len(a.notion_pages)
    THEN Some(a.notion_pages[a.selected_page_index + 1])
    ELSE None

get_selected_page_id(a) ==
    IF get_selected_page(a) = None THEN None ELSE Some(get_selected_page(a)[1].id)

\* a list without its repeated elements, first occurrences kept
RECURSIVE dedup(_)
dedup(s) ==
    IF s = <<>> THEN s
    ELSE LET r == dedup(SubSeq(s, 1, Len(s) - 1))
         IN  IF \E i \in 1..Len(r) : r[i] = s[Len(s)] THEN r ELSE Append(r, s[Len(s)])

set_pages_dedup(a, pages) ==
    [a EXCEPT !.notion_pages = dedup(pages), !.selected_page_index = 0, !.is_loading = FALSE]

set_pages_keep_index(a, pages) ==
    [a EXCEPT !.notion_pages = pages, !.is_loading = FALSE]

set_pages(a, pages) ==
    [a EXCEPT !.notion_pages = pages, !.selected_page_index = 0, !.is_loading = FALSE]

page_count(a) == Len(a.notion_pages)

next_input_skip_code(a) ==
    [a EXCEPT !.active_input_field = (a.active_input_field + 1) % (MAX_INPUTS - 1)]

next_input(a) ==
    [a EXCEPT !.active_input_field = (a.active_input_field + 1) % MAX_INPUTS]

previous_input_off_by_one(a) ==
    IF a.active_input_field = 0
    THEN [a EXCEPT !.active_input_field = MAX_INPUTS]
    ELSE [a EXCEPT !.active_input_field = a.active_input_field - 1]

previous_input(a) ==
    IF a.active_input_field = 0
    THEN [a EXCEPT !.active_input_field = MAX_INPUTS - 1]
    ELSE [a EXCEPT !.active_input_field = a.active_input_field - 1]

enter_edit_mode_with_error(a) ==
    IF a.current_focus = "InputSection"
    THEN [a EXCEPT !.input_mode = "Editing"]
    ELSE [a EXCEPT !.status_message = Some(<<CrossGlyph, " ", "Focus the input section first">>),
                   !.is_loading = FALSE]

enter_edit_mode_unguarded(a) == [a EXCEPT !.input_mode = "Editing"]

enter_edit_mode(a) ==
    IF is_input_section_focused(a) THEN [a EXCEPT !.input_mode = "Editing"] ELSE a

exit_edit_mode(a) == [a EXCEPT !.input_mode = "Normal"]

is_editing(a) == a.input_mode = "Editing"

is_normal_mode(a) == a.input_mode = "Normal"

\* The buffer get_active_input and get_active_input_mut select, by its field
\* name; any index outside 0..3 falls back to the Error buffer.
active_input_name(a) ==
    CASE a.active_input_field = 0 -> "error_input"
      [] a.active_input_field = 1 -> "problem_input"
      [] a.active_input_field = 2 -> "solution_input"
      [] a.active_input_field = 3 -> "code_input"
      [] OTHER -> "error_input"

get_active_input(a) == a[active_input_name(a)]

\* String::push
add_char_to_error(a, c) == [a EXCEPT !.error_input = Append(@, c)]

add_char(a, c) == [a EXCEPT ![active_input_name(a)] = Append(@, c)]

\* String::pop: nothing happens on an empty string
delete_char(a) ==
    [a EXCEPT ![active_input_name(a)] =
        IF @ = <<>> THEN @ ELSE SubSeq(@, 1, Len(@) - 1)]

add_newline(a) == [a EXCEPT ![active_input_name(a)] = Append(@, "\n")]

clear_inputs_keep_code(a) ==
    [a EXCEPT !.error_input = <<>>, !.problem_input = <<>>,
              !.solution_input = <<>>, !.active_input_field = 0]

clear_inputs_keep_field(a) ==
    [a EXCEPT !.error_input = <<>>, !.problem_input = <<>>,
              !.solution_input = <<>>, !.code_input = <<>>]

clear_inputs(a) ==
    [a EXCEPT !.error_input = <<>>, !.problem_input = <<>>,
              !.solution_input = <<>>, !.code_input = <<>>,
              !.active_input_field = 0]

can_submit_no_trim(a) ==
    /\ ~is_empty(a.error_input)
    /\ ~is_empty(a.problem_input)
    /\ ~is_empty(a.solution_input)
    /\ ~is_empty(a.notion_pages)

can_submit(a) ==
    LET has_error == ~is_empty(trim(a.error_input))
        has_problem == ~is_empty(trim(a.problem_input))
        has_solution == ~is_empty(trim(a.solution_input))
        has_page == ~is_empty(a.notion_pages)
    IN  has_error /\ has_problem /\ has_solution /\ has_page

FaultLogEntry(error, problem, solution, code) ==
    [error |-> error, problem |-> problem, solution |-> solution, code |-> code]

get_submission_data_trimmed(a) ==
    IF ~can_submit(a) THEN None
    ELSE IF get_selected_page(a) = None THEN None
    ELSE Some(<< get_selected_page(a)[1].id,
                 FaultLogEntry(a.error_input, a.problem_input, a.solution_input,
                     IF is_empty(trim(a.code_input)) THEN None
                     ELSE Some(trim(a.code_input))) >>)

get_submission_data(a) ==
    IF ~can_submit(a) THEN None
    ELSE IF get_selected_page(a) = None THEN None
    ELSE Some(<< get_selected_page(a)[1].id,
                 FaultLogEntry(a.error_input, a.problem_input, a.solution_input,
                     IF is_empty(trim(a.code_input)) THEN None
                     ELSE Some(a.code_input)) >>)

start_loading(a) ==
    [a EXCEPT !.is_loading = TRUE, !.status_message = Some(<<"Submitting...">>)]

finish_loading(a) == [a EXCEPT !.is_loading = FALSE]

set_status_clears_loading(a, message) ==
    [a EXCEPT !.status_message = Some(message), !.is_loading = FALSE]

set_status(a, message) == [a EXCEPT !.status_message = Some(message)]

set_success_cross_glyph(a, message) ==
    [a EXCEPT !.status_message = Some(<<CrossGlyph, " ">> \o message),
              !.is_loading = FALSE]

set_success_keep_loading(a, message) ==
    [a EXCEPT !.status_message = Some(<<CheckGlyph, " ">> \o message)]

set_success(a, message) ==
    [a EXCEPT !.status_message = Some(<<CheckGlyph, " ">> \o message),
              !.is_loading = FALSE]

set_error_no_glyph(a, message) ==
    [a EXCEPT !.status_message = Some(message), !.is_loading = FALSE]

set_error_keep_loading(a, message) ==
    [a EXCEPT !.status_message = Some(<<CrossGlyph, " ">> \o message)]

set_error(a, message) ==
    [a EXCEPT !.status_message = Some(<<CrossGlyph, " ">> \o message),
              !.is_loading = FALSE]

clear_status(a) == [a EXCEPT !.status_message = None]

get_status(a) == a.status_message

has_status(a) == a.status_message # None

handle_up_ignores_focus(a) == previous_page(a)

handle_up(a) ==
    IF a.current_focus = "PageList" THEN previous_page(a) ELSE previous_input(a)

handle_down(a) ==
    IF a.current_focus = "PageList" THEN next_page(a) ELSE next_input(a)

\* The characters the four buffers hold together (what MaxChars bounds).
TotalChars(a) ==
    Len(a.error_input) + Len(a.problem_input) + Len(a.solution_input) + Len(a.code_input)

-----------------------------------------------------------------------------
(* The program: main (main.rs:19-62) and then the loop of run_app          *)
(* (main.rs:93-109), which draws a frame and dispatches at most one key    *)
(* event per iteration through handle_events (events.rs:10-35).            *)

\* create_notion_client's error (client.rs:60-61)
ClientErrors == {"API_KEY not found in environment variables"}

\* AppState::new() at main.rs:21, nothing else done yet
Init ==
    /\ app = new
    /\ pc = "main"
    /\ notion_client = FALSE
    /\ inflight = None
    /\ response = "none"
    /\ ret = None
    /\ fetch = NoFetch

\* main.rs:29-43: no client, the demo pages are used
StartNoClient ==
    /\ pc = "main"
    /\ \E e \in ClientErrors :
          app' = set_pages(
                     set_error(app, <<"Notion API error: ", e, ". Using demo pages.">>),
                     DemoPages)
    /\ notion_client' = FALSE
    /\ pc' = "loop"
    /\ UNCHANGED <<inflight, response, ret, fetch>>

\* main.rs:25-28 and 47-57: a client, and fetch_pages answers with a list
StartFetched ==
    /\ pc = "main"
    /\ \E pages \in FetchedLists :
          LET a1 == set_status(app, <<"Connected to Notion API">>)
              a2 == set_status(a1, <<"Fetching pages from Notion...">>)
          IN  app' = IF is_empty(pages)
                     THEN set_status(a2, <<"No pages found. Create a page in Notion first.">>)
                     ELSE set_pages(
                              set_success(a2, <<"Loaded ", ToString(Len(pages)), " pages from Notion">>),
                              pages)
    /\ notion_client' = TRUE
    /\ pc' = "loop"
    /\ UNCHANGED <<inflight, response, ret, fetch>>

\* a start-up that gives up when fetch_pages fails
StartFetchFailedQuits ==
    /\ pc = "main"
    /\ app' = quit(set_error(app, <<"Failed to fetch pages: ", "reqwest::Error">>))
    /\ notion_client' = TRUE
    /\ pc' = "loop"
    /\ UNCHANGED <<inflight, response, ret, fetch>>

\* main.rs:25-28 and 58-60: a client, and fetch_pages fails
StartFetchFailed ==
    /\ pc = "main"
    /\ LET a1 == set_status(app, <<"Connected to Notion API">>)
           a2 == set_status(a1, <<"Fetching pages from Notion...">>)
       IN  app' = set_error(a2, <<"Failed to fetch pages: ", "reqwest::Error">>)
    /\ notion_client' = TRUE
    /\ pc' = "loop"
    /\ UNCHANGED <<inflight, response, ret, fetch>>

\* The loop is at handle_events and the key goes to handle_normal_mode
\* (main.rs:98, events.rs:28-34).
\* a loop that goes on dispatching while an append call is outstanding
InNormalModeNotSuspended == pc \in {"loop", "await"} /\ is_running(app) /\ ~is_editing(app)

InNormalMode == pc = "loop" /\ is_running(app) /\ ~is_editing(app)

\* The loop is at handle_events and the key goes to handle_editing_mode.
InEditingMode == pc = "loop" /\ is_running(app) /\ is_editing(app)

\* What a handler that only changes the AppState leaves alone.
OnlyApp == UNCHANGED <<pc, notion_client, inflight, response, ret, fetch>>

\* a poll without a key that lets the status expire
PollNoKeyExpires ==
    /\ pc = "loop"
    /\ is_running(app)
    /\ app' = clear_status(app)
    /\ UNCHANGED <<pc, notion_client, inflight, response, ret, fetch>>

\* events.rs:13: the poll times out, or the event is no key press
PollNoKey ==
    /\ pc = "loop"
    /\ is_running(app)
    /\ UNCHANGED vars

(* handle_normal_mode, events.rs:38-86 *)

NormalQuit ==
    /\ InNormalMode
    /\ \E c \in {"q", "Q"} : c \in NormalChars /\ app' = quit(app)
    /\ OnlyApp

NormalTab ==
    /\ InNormalMode
    /\ app' = toggle_focus(app)
    /\ OnlyApp

NormalUp ==
    /\ InNormalMode
    /\ app' = handle_up(app)
    /\ OnlyApp

NormalDown ==
    /\ InNormalMode
    /\ app' = handle_down(app)
    /\ OnlyApp

NormalEdit ==
    /\ InNormalMode
    /\ \E c \in {"e", "i"} : c \in NormalChars /\ app' = enter_edit_mode(app)
    /\ OnlyApp

\* Steps 2 to 5 of the submission sequence: the handle_events that main.rs:105
\* calls with the client and awaits.
BeginSubmission ==
    IF ~notion_client
    THEN /\ app' = set_error(app, <<"Notion not connected">>)
         /\ OnlyApp
    ELSE IF get_submission_data(app) = None
    THEN /\ app' = set_error(app, <<"Nothing to submit">>)
         /\ OnlyApp
    ELSE /\ app' = start_loading(app)
         /\ inflight' = get_submission_data(app)
         /\ pc' = "await"
         /\ UNCHANGED <<notion_client, response, ret, fetch>>

\* events.rs:64-71; where the file under src/ has its placeholder for the
\* submission ("TODO: Trigger async submission"), the sequence begins.
NormalEnter ==
    /\ InNormalMode
    /\ IF can_submit(app)
       THEN BeginSubmission
       ELSE /\ app' = set_error(app, <<"Fill in Error, Problem, and Solution fields first">>)
            /\ OnlyApp

NormalClear ==
    /\ InNormalMode
    /\ app' = set_status(clear_inputs(app), <<"Inputs cleared">>)
    /\ OnlyApp

NormalEsc ==
    /\ InNormalMode
    /\ app' = clear_status(app)
    /\ OnlyApp

\* a normal mode that types the characters it has no command for
NormalOtherTypes ==
    /\ InNormalMode
    /\ \E c \in NormalChars \ {"q", "Q", "k", "j", "e", "i", "c"} :
          app' = IF TotalChars(app) < MaxChars THEN add_char(app, c) ELSE app
    /\ UNCHANGED <<pc, notion_client, inflight, response, ret, fetch>>

\* events.rs:84: Backspace, an unbound character, any other key
NormalOther ==
    /\ InNormalMode
    /\ \E c \in NormalChars \ {"q", "Q", "k", "j", "e", "i", "c"} : app' = app
    /\ OnlyApp

(* handle_editing_mode, events.rs:89-132 *)

EditEsc ==
    /\ InEditingMode
    /\ app' = exit_edit_mode(app)
    /\ OnlyApp

\* a text input that takes the quit character as the quit key
EditCharQuits ==
    /\ InEditingMode
    /\ TotalChars(app) < MaxChars
    /\ \E c \in EditChars : app' = IF c \in {"q", "Q"} THEN quit(app) ELSE add_char(app, c)
    /\ UNCHANGED <<pc, notion_client, inflight, response, ret, fetch>>

EditChar ==
    /\ InEditingMode
    /\ TotalChars(app) < MaxChars
    /\ \E c \in EditChars : app' = add_char(app, c)
    /\ OnlyApp

EditBackspace ==
    /\ InEditingMode
    /\ app' = delete_char(app)
    /\ OnlyApp

\* an Enter that submits from editing mode when the buffers allow it
EditEnterSubmits ==
    /\ InEditingMode
    /\ IF can_submit(app)
       THEN BeginSubmission
       ELSE /\ TotalChars(app) < MaxChars
            /\ app' = add_newline(app)
            /\ UNCHANGED <<pc, notion_client, inflight, response, ret, fetch>>

EditEnter ==
    /\ InEditingMode
    /\ TotalChars(app) < MaxChars
    /\ app' = add_newline(app)
    /\ OnlyApp

\* a Tab that moves to the next field and stays out of editing
EditTabNoReenter ==
    /\ InEditingMode
    /\ app' = next_input(exit_edit_mode(app))
    /\ UNCHANGED <<pc, notion_client, inflight, response, ret, fetch>>

EditTab ==
    /\ InEditingMode
    /\ app' = enter_edit_mode(next_input(exit_edit_mode(app)))
    /\ OnlyApp

\* an Up that goes back into editing on the field it moved to
EditUpReenters ==
    /\ InEditingMode
    /\ app' = enter_edit_mode(previous_input(exit_edit_mode(app)))
    /\ OnlyApp

EditUp ==
    /\ InEditingMode
    /\ app' = previous_input(exit_edit_mode(app))
    /\ OnlyApp

EditDown ==
    /\ InEditingMode
    /\ app' = next_input(exit_edit_mode(app))
    /\ OnlyApp

\* events.rs:130
EditOther ==
    /\ InEditingMode
    /\ app' = app
    /\ OnlyApp

(* The append call and the rest of the submission sequence. *)

\* create_entry (client.rs:266-294) returns Ok(()) or an error: the request
\* failed or timed out (client.rs:80), or the status was not 2xx.
CreateEntryReturns ==
    /\ pc = "await"
    /\ response = "none"
    /\ \E r \in {"ok"} \cup Failures : response' = r
    /\ UNCHANGED <<app, pc, notion_client, inflight, ret, fetch>>

\* Steps 6 and 7 of the submission sequence.
FinishSubmission ==
    /\ pc = "await"
    /\ response # "none"
    /\ app' = IF response = "ok"
              THEN clear_inputs(set_success(app, <<"Saved to Notion">>))
              ELSE set_error(app, <<"Failed to save: ", response>>)
    /\ pc' = "loop"
    /\ inflight' = None
    /\ response' = "none"
    /\ UNCHANGED <<notion_client, ret, fetch>>

Next ==
    \/ StartNoClient \/ StartFetched \/ StartFetchFailed
    \/ PollNoKey
    \/ NormalQuit \/ NormalTab \/ NormalUp \/ NormalDown \/ NormalEdit
    \/ NormalEnter \/ NormalClear \/ NormalEsc \/ NormalOther
    \/ EditEsc \/ EditChar \/ EditBackspace \/ EditEnter
    \/ EditTab \/ EditUp \/ EditDown \/ EditOther
    \/ CreateEntryReturns \/ FinishSubmission

Spec == Init /\ [][Next]_vars

\* The program under the scheduling the code gives the submission: the append
\* call returns, at the latest through the client's timeout (client.rs:80),
\* and the awaiting handler then runs to its end (main.rs:105).
SpecLive == Spec /\ WF_vars(CreateEntryReturns) /\ WF_vars(FinishSubmission)

-----------------------------------------------------------------------------
(* The public mutators of AppState called in any order on a fresh state,   *)
(* as the tests of app.rs and tests/app_tests.rs call them.                *)

\* The text a caller hands to set_status, set_success and set_error
ApiMessages == {<<"Test">>}

InitApi ==
    /\ app = new
    /\ pc = "api"
    /\ notion_client = FALSE
    /\ inflight = None
    /\ response = "none"
    /\ ret = None
    /\ fetch = NoFetch

InApi == pc = "api" /\ OnlyApp

ApiQuit == InApi /\ app' = quit(app)

ApiToggleFocus == InApi /\ app' = toggle_focus(app)

ApiNextPage == InApi /\ app' = next_page(app)

ApiPreviousPage == InApi /\ app' = previous_page(app)

ApiSetPages == InApi /\ \E pages \in PageLists : app' = set_pages(app, pages)

ApiNextInput == InApi /\ app' = next_input(app)

ApiPreviousInput == InApi /\ app' = previous_input(app)

ApiEnterEditMode == InApi /\ app' = enter_edit_mode(app)

ApiExitEditMode == InApi /\ app' = exit_edit_mode(app)

ApiAddChar ==
    /\ InApi
    /\ TotalChars(app) < MaxApiChars
    /\ \E c \in EditChars : app' = add_char(app, c)

ApiDeleteChar == InApi /\ app' = delete_char(app)

ApiAddNewline ==
    /\ InApi
    /\ TotalChars(app) < MaxApiChars
    /\ app' = add_newline(app)

ApiClearInputs == InApi /\ app' = clear_inputs(app)

ApiStartLoading == InApi /\ app' = start_loading(app)

ApiFinishLoading == InApi /\ app' = finish_loading(app)

ApiSetStatus == InApi /\ \E m \in ApiMessages : app' = set_status(app, m)

ApiSetSuccess == InApi /\ \E m \in ApiMessages : app' = set_success(app, m)

ApiSetError == InApi /\ \E m \in ApiMessages : app' = set_error(app, m)

ApiClearStatus == InApi /\ app' = clear_status(app)

ApiHandleUp == InApi /\ app' = handle_up(app)

ApiHandleDown == InApi /\ app' = handle_down(app)

NextApi ==
    \/ ApiQuit \/ ApiToggleFocus \/ ApiNextPage \/ ApiPreviousPage \/ ApiSetPages
    \/ ApiNextInput \/ ApiPreviousInput \/ ApiEnterEditMode \/ ApiExitEditMode
    \/ ApiAddChar \/ ApiDeleteChar \/ ApiAddNewline \/ ApiClearInputs
    \/ ApiStartLoading \/ ApiFinishLoading
    \/ ApiSetStatus \/ ApiSetSuccess \/ ApiSetError \/ ApiClearStatus
    \/ ApiHandleUp \/ ApiHandleDown

SpecApi == InitApi /\ [][NextApi]_vars

-----------------------------------------------------------------------------
(* The queries can_submit and get_submission_data applied to states whose  *)
(* buffers, page list and selection are drawn from bounded sets, as the    *)
(* tests set them by assignment (tests/app_tests.rs:109-135, 188-203).     *)

\* The valid selections of a page list (0 when it is empty)
Selections(pages) == IF pages = <<>> THEN {0} ELSE 0..(Len(pages) - 1)

InitFn ==
    /\ \E e \in Strs(FnChars, MaxFnChars) :
       \E p \in Strs(FnChars, MaxFnChars - Len(e)) :
       \E s \in Strs(FnChars, MaxFnChars - Len(e) - Len(p)) :
       \E c \in Strs(FnChars, MaxFnChars - Len(e) - Len(p) - Len(s)) :
       \E pages \in PageLists :
       \E i \in Selections(pages) :
          app = [new EXCEPT !.error_input = e, !.problem_input = p,
                            !.solution_input = s, !.code_input = c,
                            !.notion_pages = pages, !.selected_page_index = i]
    /\ pc = "fn"
    /\ notion_client = FALSE
    /\ inflight = None
    /\ response = "none"
    /\ ret = None
    /\ fetch = NoFetch

\* a call of can_submit(&self)
FnCanSubmit ==
    /\ pc = "fn"
    /\ ret' = <<"can_submit", can_submit(app)>>
    /\ UNCHANGED <<app, pc, notion_client, inflight, response, fetch>>

\* get_submission_data that takes the buffers instead of cloning them
FnGetSubmissionDataTaking ==
    /\ pc = "fn"
    /\ ret' = <<"get_submission_data", get_submission_data(app)>>
    /\ app' = IF get_submission_data(app) = None THEN app ELSE clear_inputs(app)
    /\ UNCHANGED <<pc, notion_client, inflight, response, fetch>>

\* a call of get_submission_data(&self)
FnGetSubmissionData ==
    /\ pc = "fn"
    /\ ret' = <<"get_submission_data", get_submission_data(app)>>
    /\ UNCHANGED <<app, pc, notion_client, inflight, response, fetch>>

NextFn == FnCanSubmit \/ FnGetSubmissionData

SpecFn == InitFn /\ [][NextFn]_vars

-----------------------------------------------------------------------------
(* The Notion client (notion/client.rs).                                   *)

\* The results a search response may list: a page with a title, a page whose
\* title is not found, and a value without a string "id".
SearchResults ==
    { [id |-> Some("id-a"), title |-> Some("A")],
      [id |-> Some("id-b"), title |-> None],
      [id |-> None, title |-> None] }

extract_page_info(result) ==
    IF result.id = None THEN None
    ELSE Some(PageInfo(result.id[1],
                       IF result.title = None THEN "Untitled" ELSE result.title[1]))

\* client.rs:248-252: the pages of a response's results pushed on all_pages
RECURSIVE push_pages(_, _)
push_pages(all_pages, results) ==
    IF results = <<>> THEN all_pages
    ELSE push_pages(
             IF extract_page_info(Head(results)) = None THEN all_pages
             ELSE Append(all_pages, extract_page_info(Head(results))[1]),
             Tail(results))

\* The paragraph blocks of create_error_block: a bold label and the text.
Paragraph(label, content) ==
    [object |-> "block", type |-> "paragraph", label |-> label, content |-> content]

CodeBlock(content, language) ==
    [object |-> "block", type |-> "code", content |-> content, language |-> language]

\* a create_error_block that takes any non-empty code, blank or not
create_error_block_no_trim(error, problem, solution, code, language) ==
    LET children == << Paragraph("Error", error), Paragraph("Problem", problem),
                       Paragraph("Solution", solution) >>
    IN  << [ object |-> "block", type |-> "heading_3", is_toggleable |-> TRUE,
             children |-> IF code # None /\ ~is_empty(code[1])
                          THEN Append(children,
                                      CodeBlock(code[1], IF language = None THEN "plain text"
                                                         ELSE language[1]))
                          ELSE children ] >>

create_error_block(error, problem, solution, code, language) ==
    LET children == << Paragraph("Error", error), Paragraph("Problem", problem),
                       Paragraph("Solution", solution) >>
    IN  << [ object |-> "block", type |-> "heading_3", is_toggleable |-> TRUE,
             children |-> IF code # None /\ ~is_empty(trim(code[1]))
                          THEN Append(children,
                                      CodeBlock(code[1], IF language = None THEN "plain text"
                                                         ELSE language[1]))
                          ELSE children ] >>

\* The buffers create_error_block and create_entry are called on.
InitBlock ==
    /\ \E e \in Strs(FnChars, MaxBlockChars) :
       \E p \in Strs(FnChars, MaxBlockChars - Len(e)) :
       \E s \in Strs(FnChars, MaxBlockChars - Len(e) - Len(p)) :
       \E c \in Strs(FnChars, MaxBlockChars - Len(e) - Len(p) - Len(s)) :
       \E pages \in PageLists :
       \E i \in Selections(pages) :
          app = [new EXCEPT !.error_input = e, !.problem_input = p,
                            !.solution_input = s, !.code_input = c,
                            !.notion_pages = pages, !.selected_page_index = i]
    /\ pc = "block"
    /\ notion_client = TRUE
    /\ inflight = None
    /\ response = "none"
    /\ ret = None
    /\ fetch = NoFetch

\* a call of create_error_block on the buffers, with the code given or not
\* and the language given or not (tests/notion_tests.rs:5-38)
BlockCreate ==
    /\ pc = "block"
    /\ \E code \in {None, Some(app.code_input)} :
       \E language \in {None, Some("rust")} :
          ret' = <<"create_error_block", code,
                   create_error_block(app.error_input, app.problem_input,
                                      app.solution_input, code, language)>>
    /\ UNCHANGED <<app, pc, notion_client, inflight, response, fetch>>

\* client.rs:274-280: the block create_entry builds for a submission
BlockForEntry ==
    /\ pc = "block"
    /\ get_submission_data(app) # None
    /\ LET entry == get_submission_data(app)[1][2]
       IN  ret' = <<"create_entry", get_submission_data(app)[1][1],
                    create_error_block(entry.error, entry.problem, entry.solution,
                                       entry.code, Some("rust"))>>
    /\ UNCHANGED <<app, pc, notion_client, inflight, response, fetch>>

NextBlock == BlockCreate \/ BlockForEntry

SpecBlock == InitBlock /\ [][NextBlock]_vars

\* fetch_pages is called on a client; the collaborator holds a finite result set.
InitFetch ==
    /\ \E rs \in Strs(SearchResults, MaxResults) :
          fetch = [ results      |-> rs,
                    all_pages    |-> <<>>,
                    start_cursor |-> None,
                    requests     |-> 0,
                    faults       |-> 0 ]
    /\ app = new
    /\ pc = "fetch"
    /\ notion_client = TRUE
    /\ inflight = None
    /\ response = "none"
    /\ ret = None

\* One turn of the loop (client.rs:222-260) whose request is answered.  The
\* search answers a request without start_cursor from the first result and a
\* request with a cursor from the result the cursor names; it lists some
\* results, says whether more follow, and with has_more it gives the cursor
\* of the next result or, MaxFaults times at most, no cursor.
FetchResponse ==
    /\ pc = "fetch"
    /\ \E k \in 1..MaxChunk :
          LET n        == Len(fetch.results)
              from     == IF fetch.start_cursor = None THEN 1 ELSE fetch.start_cursor[1]
              upto     == IF from + k - 1 < n THEN from + k - 1 ELSE n
              results  == SubSeq(fetch.results, from, upto)
              has_more == upto < n
              all      == push_pages(fetch.all_pages, results)
          IN  \E next_cursor \in
                     IF ~has_more THEN {None}
                     ELSE {Some(upto + 1)}
                          \cup (IF fetch.faults < MaxFaults THEN {None} ELSE {}) :
                 /\ fetch' = [fetch EXCEPT
                                 !.all_pages = all,
                                 !.start_cursor = IF has_more THEN next_cursor ELSE @,
                                 !.requests = @ + 1,
                                 !.faults = IF has_more /\ next_cursor = None THEN @ + 1 ELSE @]
                 /\ IF has_more
                    THEN UNCHANGED <<pc, response, ret>>
                    ELSE /\ pc' = "fetched"
                         /\ response' = "ok"
                         /\ ret' = Some(all)
    /\ UNCHANGED <<app, notion_client, inflight>>

\* client.rs:238-245: the request or the decoding of the answer fails
FetchFails ==
    /\ pc = "fetch"
    /\ \E r \in Failures : response' = r
    /\ pc' = "fetched"
    /\ UNCHANGED <<app, notion_client, inflight, ret, fetch>>

NextFetch == FetchResponse \/ FetchFails

SpecFetch == InitFetch /\ [][NextFetch]_vars

-----------------------------------------------------------------------------

(* Properties. *)

\* A string holds a character that is not whitespace.
NonBlank(s) == \E i \in 1..Len(s) : s[i] \notin Whitespace

\* The four buffers and the active field.
Buffers(a) ==
    <<a.error_input, a.problem_input, a.solution_input, a.code_input, a.active_input_field>>

\* The kind of a stored status, by its prefix.
IsErrorStatus(st) == st # None /\ Len(st[1]) >= 2 /\ st[1][1] = CrossGlyph /\ st[1][2] = " "
IsSuccessStatus(st) == st # None /\ Len(st[1]) >= 2 /\ st[1][1] = CheckGlyph /\ st[1][2] = " "

\* C1 (I3): in every state the program reaches from the fresh state through
\* start-up (set_pages) and dispatched keys, Editing mode implies that the
\* input section has the focus.
C1_EditingImpliesInputSection ==
    app.input_mode = "Editing" => app.current_focus = "InputSection"

C1_Witness ==
    /\ pc = "loop"
    /\ app.input_mode = "Editing"
    /\ app.notion_pages # <<>>

\* C2 (I2): after any sequence of set_pages, next_page, previous_page and the
\* other mutators, the selected index is below the number of pages when there
\* are pages, and 0 when there are none.
C2_SelectionInRange ==
    /\ app.notion_pages # <<>> =>
          /\ 0 <= app.selected_page_index
          /\ app.selected_page_index < Len(app.notion_pages)
    /\ app.notion_pages = <<>> => app.selected_page_index = 0

C2_Witness ==
    /\ pc = "api"
    /\ Len(app.notion_pages) = 3
    /\ app.selected_page_index = 2

\* C3 (I1): in every state the program reaches, the active field index is one
\* of 0, 1, 2, 3, so the fallback arm of get_active_input_mut is never taken.
C3_ActiveFieldInRange == app.active_input_field \in {0, 1, 2, 3}

C3_Witness ==
    /\ pc = "loop"
    /\ app.active_input_field = 3
    /\ app.input_mode = "Editing"

\* C4: can_submit returns true exactly in the one row of the truth table where
\* the Error, Problem and Solution buffers each hold a non-whitespace character
\* and there is a page, and its result is the same for every Code buffer.
C4_CanSubmitTruthTable ==
    (Len(ret) = 2 /\ ret[1] = "can_submit") =>
        /\ ret[2] = ( << NonBlank(app.error_input), NonBlank(app.problem_input),
                         NonBlank(app.solution_input), app.notion_pages # <<>> >>
                      = <<TRUE, TRUE, TRUE, TRUE>> )
        /\ \A c \in Strs(FnChars, 2) :
              can_submit([app EXCEPT !.code_input = c]) = ret[2]

C4_Witness ==
    /\ ret = <<"can_submit", TRUE>>
    /\ Head(app.error_input) \in Whitespace
    /\ app.code_input # <<>>

\* C5: in every state the program reaches, get_submission_data returns None
\* exactly when can_submit is false, returns the id of the page at the selected
\* index when it is true, and the "nothing to submit" status of step 3 is never
\* set.
C5_SubmissionDataIffCanSubmit ==
    /\ (get_submission_data(app) = None) <=> ~can_submit(app)
    /\ can_submit(app) =>
          get_submission_data(app)[1][1] = app.notion_pages[app.selected_page_index + 1].id
    /\ app.status_message # Some(<<CrossGlyph, " ", "Nothing to submit">>)

C5_Witness ==
    /\ pc = "loop"
    /\ can_submit(app)
    /\ app.selected_page_index = 2
    /\ get_submission_data(app)[1][1] = "id-a"

\* C6 as stated: the code field of the returned entry is the Code buffer
\* trimmed of surrounding whitespace, None when nothing is left.
C6_Original_CodeTrimmed ==
    (Len(ret) = 2 /\ ret[1] = "get_submission_data" /\ ret[2] # None) =>
        ret[2][1][2].code = IF trim(app.code_input) = <<>> THEN None
                            ELSE Some(trim(app.code_input))

\* C6 as amended: the code field of the returned entry is None when the Code
\* buffer holds only whitespace (or nothing), and otherwise the whole Code
\* buffer, surrounding whitespace included.
C6_CodeWholeOrNone ==
    (Len(ret) = 2 /\ ret[1] = "get_submission_data" /\ ret[2] # None) =>
        ret[2][1][2].code = IF NonBlank(app.code_input) THEN Some(app.code_input)
                            ELSE None

C6_Witness ==
    /\ Len(ret) = 2
    /\ ret[1] = "get_submission_data"
    /\ ret[2] # None
    /\ app.code_input = <<" ", "q">>

\* C7: a call of get_submission_data, whether it returns None or an entry,
\* leaves the buffers, the active field, the selected index, the pages, the
\* focus, the mode, the status and the loading flag as they were.
C7_GetSubmissionDataPure ==
    [][FnGetSubmissionData =>
          /\ Buffers(app') = Buffers(app)
          /\ app'.selected_page_index = app.selected_page_index
          /\ app'.notion_pages = app.notion_pages
          /\ app'.current_focus = app.current_focus
          /\ app'.input_mode = app.input_mode
          /\ app'.status_message = app.status_message
          /\ app'.is_loading = app.is_loading]_vars

C7_Witness ==
    /\ Len(ret) = 2
    /\ ret[1] = "get_submission_data"
    /\ ret[2] # None
    /\ TotalChars(app) = MaxFnChars

\* C8: the Enter key in Normal mode with can_submit false sets the validation
\* message as an error status, leaves the loading flag false, starts no append
\* call, and leaves the buffers, the active field, the selected index, the
\* focus and the mode unchanged.
C8_RejectedSubmit ==
    [][(NormalEnter /\ ~can_submit(app)) =>
          /\ IsErrorStatus(app'.status_message)
          /\ app'.status_message[1][3] = "Fill in Error, Problem, and Solution fields first"
          /\ ~app.is_loading
          /\ ~app'.is_loading
          /\ inflight' = None
          /\ pc' = "loop"
          /\ Buffers(app') = Buffers(app)
          /\ app'.selected_page_index = app.selected_page_index
          /\ app'.current_focus = app.current_focus
          /\ app'.input_mode = app.input_mode]_vars

C8_Witness ==
    /\ pc = "loop"
    /\ app.status_message =
          Some(<<CrossGlyph, " ", "Fill in Error, Problem, and Solution fields first">>)
    /\ app.error_input # <<>>
    /\ app.problem_input = <<>>
    /\ app.notion_pages # <<>>

KeyDispatch ==
    \/ PollNoKey
    \/ NormalQuit \/ NormalTab \/ NormalUp \/ NormalDown \/ NormalEdit
    \/ NormalEnter \/ NormalClear \/ NormalEsc \/ NormalOther
    \/ EditEsc \/ EditChar \/ EditBackspace \/ EditEnter
    \/ EditTab \/ EditUp \/ EditDown \/ EditOther

SameExcept(a, b, fields) == \A f \in (DOMAIN a) \ fields : a[f] = b[f]

\* The other variables of the model are left alone.
OnlyAppChanges == <<pc, notion_client, inflight, response, ret, fetch>>' = <<pc, notion_client, inflight, response, ret, fetch>>

\* C15: with n pages and selected index i, next_page sets the index to
\* (i+1) mod n and previous_page to (i-1+n) mod n (n-1 from index 0), and
\* neither changes the page list or any other field.
C15_PageNavigationWraps ==
    /\ [](LET n == Len(app.notion_pages)
              i == app.selected_page_index
          IN  n > 0 =>
                /\ next_page(app).selected_page_index = (i + 1) % n
                /\ previous_page(app).selected_page_index = (i - 1 + n) % n
                /\ SameExcept(app, next_page(app), {"selected_page_index"})
                /\ SameExcept(app, previous_page(app), {"selected_page_index"}))
    /\ [][LET n == Len(app.notion_pages)
              i == app.selected_page_index
          IN  /\ (ApiNextPage /\ n > 0) =>
                    /\ app'.selected_page_index = (i + 1) % n
                    /\ SameExcept(app, app', {"selected_page_index"})
                    /\ OnlyAppChanges
              /\ (ApiPreviousPage /\ n > 0) =>
                    /\ app'.selected_page_index = (i - 1 + n) % n
                    /\ (i = 0 => app'.selected_page_index = n - 1)
                    /\ SameExcept(app, app', {"selected_page_index"})
                    /\ OnlyAppChanges]_vars

C15_Witness ==
    /\ pc = "api"
    /\ app.notion_pages = DemoPages
    /\ app.selected_page_index = 1
    /\ app.current_focus = "InputSection"

\* next_page applied k times
RECURSIVE NextPageTimes(_, _)
NextPageTimes(a, k) == IF k = 0 THEN a ELSE NextPageTimes(next_page(a), k - 1)

\* C16: in every state with n >= 1 pages, next_page applied n times returns
\* the selected index to where it was, and previous_page right after next_page
\* restores it (and so does handle_up after handle_down on the page list).
C16_PageNavigationClosure ==
    app.notion_pages # <<>> =>
        /\ NextPageTimes(app, Len(app.notion_pages)).selected_page_index
              = app.selected_page_index
        /\ \A k \in 1..(Len(app.notion_pages) - 1) :
              NextPageTimes(app, k).selected_page_index # app.selected_page_index
        /\ previous_page(next_page(app)) = app
        /\ app.current_focus = "PageList" => handle_up(handle_down(app)) = app

C16_Witness ==
    /\ pc = "api"
    /\ Len(app.notion_pages) = 3
    /\ app.selected_page_index = 1
    /\ app.current_focus = "PageList"

\* C17: next_input sets the active field f to (f+1) mod 4 and previous_input
\* to (f+3) mod 4, whichever section has the focus; four next_input calls
\* return to the field they started from; no buffer and no other field changes.
C17_FieldNavigationWraps ==
    /\ [][LET f == app.active_input_field
          IN  /\ ApiNextInput =>
                    /\ app'.active_input_field = (f + 1) % 4
                    /\ SameExcept(app, app', {"active_input_field"})
                    /\ OnlyAppChanges
              /\ ApiPreviousInput =>
                    /\ app'.active_input_field = (f + 3) % 4
                    /\ SameExcept(app, app', {"active_input_field"})
                    /\ OnlyAppChanges]_vars
    /\ [](/\ next_input(next_input(next_input(next_input(app)))) = app
          /\ \A fo \in {"PageList", "InputSection"} :
                LET a == [app EXCEPT !.current_focus = fo]
                IN  /\ next_input(a).active_input_field = (app.active_input_field + 1) % 4
                    /\ previous_input(a).active_input_field = (app.active_input_field + 3) % 4)

C17_Witness ==
    /\ pc = "api"
    /\ app.active_input_field = 3
    /\ app.current_focus = "PageList"
    /\ TotalChars(app) = MaxApiChars

\* C18: toggle_focus flips the focus; leaving the input section it sets the
\* mode to Normal, leaving the page list it leaves the mode as it is; it
\* changes no other field; two toggles restore the focus.
C18_ToggleFocus ==
    /\ [][ApiToggleFocus =>
             /\ app.current_focus = "PageList" =>
                   (app'.current_focus = "InputSection" /\ app'.input_mode = app.input_mode)
             /\ app.current_focus = "InputSection" =>
                   (app'.current_focus = "PageList" /\ app'.input_mode = "Normal")
             /\ SameExcept(app, app', {"current_focus", "input_mode"})
             /\ OnlyAppChanges]_vars
    /\ [](toggle_focus(toggle_focus(app)).current_focus = app.current_focus)

C18_Witness ==
    /\ pc = "api"
    /\ app.current_focus = "InputSection"
    /\ app.input_mode = "Editing"
    /\ app.is_loading
    /\ app.selected_page_index = 1

\* C19: enter_edit_mode sets the mode to Editing exactly when the input
\* section has the focus and otherwise changes nothing at all (no status is
\* set); exit_edit_mode sets the mode to Normal and changes nothing else.
C19_EnterAndExitEdit ==
    [][/\ ApiEnterEditMode =>
             /\ (app'.input_mode = "Editing") <=> (app.current_focus = "InputSection")
             /\ app.current_focus = "PageList" => app' = app
             /\ SameExcept(app, app', {"input_mode"})
             /\ OnlyAppChanges
       /\ ApiExitEditMode =>
             /\ app'.input_mode = "Normal"
             /\ SameExcept(app, app', {"input_mode"})
             /\ OnlyAppChanges]_vars

C19_Witness ==
    /\ pc = "api"
    /\ app.input_mode = "Editing"
    /\ app.status_message = None
    /\ app.active_input_field = 1

\* C20 (I4): from any state, whatever the selected index and the loading flag,
\* set_pages(list) makes the page list exactly the given list (order and
\* duplicates kept), the selected index 0 and the loading flag false, and
\* leaves every other field unchanged.
C20_SetPages ==
    \A pages \in PageLists :
        LET b == set_pages(app, pages)
        IN  /\ b.notion_pages = pages
            /\ b.selected_page_index = 0
            /\ ~b.is_loading
            /\ SameExcept(app, b, {"notion_pages", "selected_page_index", "is_loading"})

C20_Witness ==
    /\ pc = "api"
    /\ app.is_loading
    /\ app.selected_page_index = 2
    /\ app.input_mode = "Editing"
    /\ app.status_message # None

\* A stored status of the Info kind: a text with neither glyph in front.
IsInfoStatus(st) == st # None /\ ~IsErrorStatus(st) /\ ~IsSuccessStatus(st)

\* The field names of the four buffers, by ActiveFieldIndex 0..3.
BufferNames == <<"error_input", "problem_input", "solution_input", "code_input">>

BufferFields == {BufferNames[i] : i \in 1..4}

\* C21: clear_inputs empties the four buffers and sets the active field to 0
\* whatever it was, and changes nothing else; the clear key in normal mode
\* does this and sets an Info status, and leaves focus, mode, pages, selected
\* index and loading flag as they were.
C21_ClearInputs ==
    /\ [](LET b == clear_inputs(app)
          IN  /\ \A n \in BufferFields : b[n] = <<>>
              /\ b.active_input_field = 0
              /\ SameExcept(app, b, BufferFields \cup {"active_input_field"}))
    /\ [][NormalClear =>
             /\ \A n \in BufferFields : app'[n] = <<>>
             /\ app'.active_input_field = 0
             /\ IsInfoStatus(app'.status_message)
             /\ SameExcept(app, app',
                           BufferFields \cup {"active_input_field", "status_message"})
             /\ OnlyAppChanges]_vars

C21_Witness ==
    /\ pc = "loop"
    /\ app.status_message = Some(<<"Inputs cleared">>)
    /\ TotalChars(app) = 0
    /\ app.active_input_field = 0
    /\ app.current_focus = "InputSection"
    /\ app.selected_page_index = 1

\* C22: add_char, add_newline and delete_char change only the buffer the
\* active field selects (0 Error, 1 Problem, 2 Solution, 3 Code): the insert
\* appends one character, the delete removes the last one and does nothing
\* at all on an empty buffer, and delete_char after add_char restores the state.
C22_EditOnlyActiveBuffer ==
    LET n == BufferNames[app.active_input_field + 1]
    IN  /\ \A c \in EditChars :
              /\ add_char(app, c)[n] = app[n] \o <<c>>
              /\ SameExcept(app, add_char(app, c), {n})
              /\ delete_char(add_char(app, c)) = app
        /\ add_newline(app)[n] = app[n] \o <<"\n">>
        /\ SameExcept(app, add_newline(app), {n})
        /\ app[n] = <<>> => delete_char(app) = app
        /\ app[n] # <<>> =>
              /\ Len(delete_char(app)[n]) = Len(app[n]) - 1
              /\ delete_char(app)[n] \o <<app[n][Len(app[n])]>> = app[n]
        /\ SameExcept(app, delete_char(app), {n})

C22_Witness ==
    /\ pc = "api"
    /\ app.active_input_field = 3
    /\ app.code_input = <<"q", "\n">>
    /\ app.error_input = <<>>

\* C23: start_loading raises the loading flag and sets an Info status;
\* set_success and set_error lower the flag; set_status and clear_status leave
\* it as it is; none of the five changes a buffer, an index, the focus or the
\* mode.
C23_StatusHelpersAndLoading ==
    /\ start_loading(app).is_loading
    /\ IsInfoStatus(start_loading(app).status_message)
    /\ SameExcept(app, start_loading(app), {"is_loading", "status_message"})
    /\ \A m \in ApiMessages :
          /\ ~set_success(app, m).is_loading
          /\ ~set_error(app, m).is_loading
          /\ SameExcept(app, set_success(app, m), {"is_loading", "status_message"})
          /\ SameExcept(app, set_error(app, m), {"is_loading", "status_message"})
          /\ SameExcept(app, set_status(app, m), {"status_message"})
    /\ SameExcept(app, clear_status(app), {"status_message"})

C23_Witness ==
    /\ pc = "api"
    /\ app.is_loading
    /\ app.status_message = Some(<<"Test">>)
    /\ app.input_mode = "Editing"
    /\ app.active_input_field = 2

\* C24: set_status stores the text as it is, set_success stores it behind the
\* check glyph and set_error behind the cross glyph, each replacing whatever
\* status was there, and clear_status leaves none; so the statuses the program
\* sets tell their kind; Escape in normal mode does clear_status and nothing
\* else.
C24_StatusKinds ==
    /\ [](/\ \A m \in ApiMessages \cup {<<"Inputs cleared">>, <<"Saved to Notion">>} :
                /\ set_status(app, m).status_message = Some(m)
                /\ set_success(app, m).status_message = Some(<<CheckGlyph, " ">> \o m)
                /\ set_error(app, m).status_message = Some(<<CrossGlyph, " ">> \o m)
                /\ IsInfoStatus(set_status(app, m).status_message)
                /\ IsSuccessStatus(set_success(app, m).status_message)
                /\ ~IsErrorStatus(set_success(app, m).status_message)
                /\ IsErrorStatus(set_error(app, m).status_message)
                /\ ~IsSuccessStatus(set_error(app, m).status_message)
          /\ clear_status(app).status_message = None)
    /\ [][/\ NormalEsc =>
                /\ app'.status_message = None
                /\ SameExcept(app, app', {"status_message"})
                /\ OnlyAppChanges
          /\ NormalClear => IsInfoStatus(app'.status_message)
          /\ (FinishSubmission /\ response = "ok") => IsSuccessStatus(app'.status_message)
          /\ (FinishSubmission /\ response # "ok") => IsErrorStatus(app'.status_message)]_vars

C24_Witness ==
    /\ pc = "loop"
    /\ notion_client
    /\ app.status_message = None
    /\ TotalChars(app) > 0
    /\ app.current_focus = "InputSection"

\* C25: in editing mode with active field f, Tab ends on field (f+1) mod 4
\* still editing, Up ends on field (f+3) mod 4 in normal mode and Down on field
\* (f+1) mod 4 in normal mode; none of them changes the focus, a buffer or any
\* other field.
C25_EditingTabUpDown ==
    [][LET f == app.active_input_field
       IN  /\ EditTab =>
                 /\ app'.active_input_field = (f + 1) % 4
                 /\ app'.input_mode = "Editing"
           /\ EditUp =>
                 /\ app'.active_input_field = (f + 3) % 4
                 /\ app'.input_mode = "Normal"
           /\ EditDown =>
                 /\ app'.active_input_field = (f + 1) % 4
                 /\ app'.input_mode = "Normal"
           /\ (EditTab \/ EditUp \/ EditDown) =>
                 /\ app.input_mode = "Editing"
                 /\ app'.current_focus = app.current_focus
                 /\ SameExcept(app, app', {"active_input_field", "input_mode"})
                 /\ OnlyAppChanges]_vars

C25_Witness ==
    /\ pc = "loop"
    /\ app.input_mode = "Editing"
    /\ app.active_input_field = 3
    /\ app.error_input = <<"q">>
    /\ app.code_input = <<"\n">>

\* C26: in normal mode Up and Down move the page selection when the page list
\* has the focus and leave the active field; they move the active field when
\* the input section has the focus and leave the selection; the mode stays
\* Normal and no buffer changes.
C26_NormalUpDownByFocus ==
    /\ [](is_normal_mode(app) =>
             /\ app.current_focus = "PageList" =>
                   /\ handle_up(app) = previous_page(app)
                   /\ handle_down(app) = next_page(app)
                   /\ handle_up(app).active_input_field = app.active_input_field
                   /\ handle_down(app).active_input_field = app.active_input_field
             /\ app.current_focus = "InputSection" =>
                   /\ handle_up(app) = previous_input(app)
                   /\ handle_down(app) = next_input(app)
                   /\ handle_up(app).selected_page_index = app.selected_page_index
                   /\ handle_down(app).selected_page_index = app.selected_page_index
                   /\ handle_up(app).active_input_field = (app.active_input_field + 3) % 4
                   /\ handle_down(app).active_input_field = (app.active_input_field + 1) % 4)
    /\ [][(NormalUp \/ NormalDown) =>
             /\ app.input_mode = "Normal" /\ app'.input_mode = "Normal"
             /\ app.current_focus = "PageList" =>
                   SameExcept(app, app', {"selected_page_index"})
             /\ app.current_focus = "InputSection" =>
                   SameExcept(app, app', {"active_input_field"})
             /\ \A n \in BufferFields : app'[n] = app[n]
             /\ OnlyAppChanges]_vars

C26_Witness ==
    /\ pc = "loop"
    /\ app.input_mode = "Normal"
    /\ app.current_focus = "InputSection"
    /\ app.active_input_field = 3
    /\ app.selected_page_index = 2
    /\ TotalChars(app) = 0

\* Any key dispatched to handle_editing_mode.
EditingDispatch ==
    \/ EditEsc \/ EditChar \/ EditBackspace \/ EditEnter
    \/ EditTab \/ EditUp \/ EditDown \/ EditOther

\* C27: Enter in editing mode appends a newline to the active buffer and does
\* nothing else: status and loading flag stay, no append is issued; no key in
\* editing mode starts a submission; an append is issued only by Enter
\* dispatched in normal mode, and the mode is Normal while it is outstanding.
C27_SubmitOnlyFromNormalMode ==
    /\ [](inflight # None => app.input_mode = "Normal")
    /\ [][LET n == BufferNames[app.active_input_field + 1]
          IN  /\ EditEnter =>
                    /\ app.input_mode = "Editing"
                    /\ app'[n] = app[n] \o <<"\n">>
                    /\ SameExcept(app, app', {n})
                    /\ app'.status_message = app.status_message
                    /\ app'.is_loading = app.is_loading
              /\ EditingDispatch =>
                    /\ inflight = None /\ inflight' = None
                    /\ pc' = "loop" /\ response' = "none"
              /\ (inflight' # inflight /\ inflight' # None) =>
                    /\ NormalEnter
                    /\ app.input_mode = "Normal"
                    /\ pc = "loop" /\ pc' = "await"]_vars

C27_Witness ==
    /\ pc = "loop"
    /\ notion_client
    /\ app.input_mode = "Editing"
    /\ app.active_input_field = 2
    /\ app.error_input = <<"q">>
    /\ app.solution_input = <<"q", "\n">>
    /\ ~app.is_loading
    /\ inflight = None

\* C28: the running flag goes from true to false only by the quit key
\* dispatched in normal mode; no other step changes it (in editing mode the
\* quit character is text), and once false it stays false.
C28_OnlyQuitStopsRunning ==
    [][/\ app'.running # app.running =>
             /\ app.running /\ ~app'.running
             /\ NormalQuit
             /\ app.input_mode = "Normal"
             /\ SameExcept(app, app', {"running"})
       /\ ~app.running => ~app'.running
       /\ (\/ EditingDispatch
           \/ NormalTab \/ NormalUp \/ NormalDown \/ NormalEdit \/ NormalEnter
           \/ NormalClear \/ NormalEsc \/ NormalOther \/ PollNoKey
           \/ CreateEntryReturns \/ FinishSubmission) => app'.running = app.running
       /\ (EditChar /\ app' = add_char(app, "q")) =>
             (app.running /\ app'.running /\ app' # app)]_vars

C28_Witness ==
    /\ pc = "loop"
    /\ ~app.running
    /\ app.error_input = <<"q">>
    /\ app.input_mode = "Normal"

\* C29: the status never expires: once the loop runs, it changes only by
\* Enter (the submission sequence up to its end), the clear key and Escape in
\* normal mode; every other key in normal mode, every key in editing mode, a
\* poll without a key and the wait for the append leave it as it is.
C29_StatusNeverExpires ==
    [][/\ (pc # "main" /\ app'.status_message # app.status_message) =>
             (NormalEnter \/ NormalClear \/ NormalEsc \/ FinishSubmission)
       /\ (\/ EditingDispatch
           \/ NormalQuit \/ NormalTab \/ NormalUp \/ NormalDown \/ NormalEdit
           \/ NormalOther \/ PollNoKey \/ CreateEntryReturns) =>
             app'.status_message = app.status_message]_vars

C29_Witness ==
    /\ pc = "loop"
    /\ app.input_mode = "Editing"
    /\ app.status_message = Some(<<"Inputs cleared">>)
    /\ TotalChars(app) = MaxChars
    /\ app.active_input_field = 1

\* C30: the state AppState::new builds has four empty buffers, no pages,
\* selected index 0, active field 0, the focus on the page list, mode Normal,
\* no status, the loading flag down and running up; in it can_submit is
\* false and get_submission_data is None.
C30_NewAppState ==
    pc = "main" =>
        /\ app = new
        /\ \A n \in BufferFields : app[n] = <<>>
        /\ app.notion_pages = <<>>
        /\ app.selected_page_index = 0
        /\ app.active_input_field = 0
        /\ app.current_focus = "PageList"
        /\ app.input_mode = "Normal"
        /\ app.status_message = None
        /\ ~app.is_loading
        /\ app.running
        /\ ~can_submit(app)
        /\ get_submission_data(app) = None

C30_Witness ==
    /\ pc = "main"
    /\ inflight = None
    /\ is_running(app)
    /\ is_page_list_focused(app)
    /\ ~has_status(app)

\* The pages among the results of a listing, in the order listed.
ListedPages(rs) ==
    LET ix == {i \in 1..Len(rs) : rs[i].id # None}
        f[i \in 0..Len(rs)] ==
            IF i = 0 THEN <<>>
            ELSE IF i \in ix
                 THEN Append(f[i - 1],
                             [id |-> rs[i].id[1],
                              title |-> IF rs[i].title = None THEN "Untitled" ELSE rs[i].title[1]])
                 ELSE f[i - 1]
    IN  f[Len(rs)]

\* C36: fetch_pages returns each listed page once, in the order of the
\* responses, and after a response with has_more its next request carries a
\* cursor, so the listing is never started again from the beginning.
C36_FetchEachPageOnce ==
    /\ (pc = "fetched" /\ response = "ok") => ret = Some(ListedPages(fetch.results))
    /\ (pc = "fetch" /\ fetch.requests > 0) => fetch.start_cursor # None

\* fetch_pages has returned more pages than were listed, after a response
\* with has_more and no next_cursor.
C36_Witness ==
    /\ pc = "fetched"
    /\ response = "ok"
    /\ fetch.faults = 1
    /\ Len(ret[1]) > Len(ListedPages(fetch.results))

\* C31: a failed fetch_pages at start-up is not fatal: the page list is empty,
\* an error status reports the failure, running is still true and the loop is
\* entered and dispatches keys; with the empty list, page navigation changes
\* nothing and can_submit is false whatever the buffers hold.
C31_FetchFailureNotFatal ==
    /\ [][StartFetchFailed =>
             /\ app'.notion_pages = <<>>
             /\ IsErrorStatus(app'.status_message)
             /\ app'.status_message[1][3] = "Failed to fetch pages: "
             /\ app'.running
             /\ pc' = "loop"
             /\ SameExcept(app, app', {"status_message"})]_vars
    /\ []((pc = "loop" /\ app.running) => ENABLED KeyDispatch)
    /\ []((pc = "loop" /\ app.notion_pages = <<>>) =>
             /\ next_page(app) = app
             /\ previous_page(app) = app
             /\ ~can_submit(app)
             /\ \A e \in {<<>>, <<"q">>} : \A p \in {<<>>, <<"q">>} :
                \A s \in {<<>>, <<"q">>} : \A c \in {<<>>, <<"q">>} :
                   ~can_submit([app EXCEPT !.error_input = e, !.problem_input = p,
                                           !.solution_input = s, !.code_input = c]))

C31_Witness ==
    /\ pc = "loop"
    /\ notion_client
    /\ app.running
    /\ app.notion_pages = <<>>
    /\ app.status_message =
          Some(<<CrossGlyph, " ", "Failed to fetch pages: ", "reqwest::Error">>)
    /\ app.error_input = <<"q">>
    /\ app.problem_input = <<"q">>
    /\ app.solution_input = <<"q">>

Scenario(focus, mode, field, e, p, s) ==
    [ running |-> TRUE,
      current_focus |-> focus,
      input_mode |-> mode,
      notion_pages |-> << [id |-> "id-a", title |-> "A"] >>,
      selected_page_index |-> 0,
      active_input_field |-> field,
      error_input |-> e,
      problem_input |-> p,
      solution_input |-> s,
      code_input |-> <<>>,
      status_message |-> Some(<<CheckGlyph, " ", "Loaded ", "1", " pages from Notion">>),
      is_loading |-> FALSE ]

ScenarioEnd == Scenario("InputSection", "Normal", 2, <<"q">>, <<"q">>, <<"q">>)

\* C33: from the fresh state with one page loaded, the keys focus switch,
\* edit, a text, Tab, a text, Tab, a text, Escape go through the states
\* written out here and end with the three texts in the Error, Problem and
\* Solution buffers, the Code buffer empty, active field 2 and mode Normal,
\* where get_submission_data returns the page's id and the three texts with
\* no code.
C33_EntryScenario ==
    /\ [][/\ StartFetched /\ Len(app'.notion_pages) = 1 =>
                app' = Scenario("PageList", "Normal", 0, <<>>, <<>>, <<>>)
          /\ pc = "loop" =>
              /\ (app = Scenario("PageList", "Normal", 0, <<>>, <<>>, <<>>) /\ NormalTab) =>
                    app' = Scenario("InputSection", "Normal", 0, <<>>, <<>>, <<>>)
              /\ (app = Scenario("InputSection", "Normal", 0, <<>>, <<>>, <<>>) /\ NormalEdit) =>
                    app' = Scenario("InputSection", "Editing", 0, <<>>, <<>>, <<>>)
              /\ (app = Scenario("InputSection", "Editing", 0, <<>>, <<>>, <<>>) /\ EditChar) =>
                    app' = Scenario("InputSection", "Editing", 0, <<"q">>, <<>>, <<>>)
              /\ (app = Scenario("InputSection", "Editing", 0, <<"q">>, <<>>, <<>>) /\ EditTab) =>
                    app' = Scenario("InputSection", "Editing", 1, <<"q">>, <<>>, <<>>)
              /\ (app = Scenario("InputSection", "Editing", 1, <<"q">>, <<>>, <<>>) /\ EditChar) =>
                    app' = Scenario("InputSection", "Editing", 1, <<"q">>, <<"q">>, <<>>)
              /\ (app = Scenario("InputSection", "Editing", 1, <<"q">>, <<"q">>, <<>>) /\ EditTab) =>
                    app' = Scenario("InputSection", "Editing", 2, <<"q">>, <<"q">>, <<>>)
              /\ (app = Scenario("InputSection", "Editing", 2, <<"q">>, <<"q">>, <<>>) /\ EditChar) =>
                    app' = Scenario("InputSection", "Editing", 2, <<"q">>, <<"q">>, <<"q">>)
              /\ (app = Scenario("InputSection", "Editing", 2, <<"q">>, <<"q">>, <<"q">>) /\ EditEsc) =>
                    app' = ScenarioEnd]_vars
    /\ [](app = ScenarioEnd =>
             /\ can_submit(app)
             /\ get_submission_data(app) =
                   Some(<< "id-a",
                           [error |-> <<"q">>, problem |-> <<"q">>, solution |-> <<"q">>,
                            code |-> None] >>))

C33_Witness ==
    /\ pc = "loop"
    /\ notion_client
    /\ app.status_message = Some(<<CheckGlyph, " ", "Loaded ", "1", " pages from Notion">>)
    /\ app.current_focus = "InputSection"
    /\ app.input_mode = "Normal"
    /\ app.active_input_field = 2
    /\ <<app.error_input, app.problem_input, app.solution_input, app.code_input>>
          = << <<"q">>, <<"q">>, <<"q">>, <<>> >>
    /\ Len(app.notion_pages) = 1

\* C34: on an empty page list next_page and previous_page leave the whole
\* state as it is, the selected index is 0, and get_selected_page returns
\* None (so do get_selected_page_id and get_submission_data): the index is
\* not read as a selection.
C34_EmptyListNavigation ==
    app.notion_pages = <<>> =>
        /\ next_page(app) = app
        /\ previous_page(app) = app
        /\ previous_page(next_page(app)) = app
        /\ app.current_focus = "PageList" => (handle_up(app) = app /\ handle_down(app) = app)
        /\ app.selected_page_index = 0
        /\ get_selected_page(app) = None
        /\ get_selected_page_id(app) = None
        /\ get_submission_data(app) = None

C34_Witness ==
    /\ pc = "api"
    /\ app.notion_pages = <<>>
    /\ app.current_focus = "PageList"
    /\ app.error_input = <<"q">>
    /\ app.is_loading
    /\ app.status_message # None

\* C35: in normal mode no key appends to or deletes from a buffer: a step
\* taken in normal mode that changes a buffer is the clear key or the end of
\* a successful submission, and it leaves all four buffers empty; every other
\* normal-mode key leaves the four buffers as they are.
C35_BuffersEditedOnlyInEditing ==
    [][/\ (app.input_mode = "Normal" /\ \E n \in BufferFields : app'[n] # app[n]) =>
             /\ NormalClear \/ (FinishSubmission /\ response = "ok")
             /\ \A n \in BufferFields : app'[n] = <<>>
       /\ (\/ NormalQuit \/ NormalTab \/ NormalUp \/ NormalDown \/ NormalEdit
           \/ NormalEnter \/ NormalEsc \/ NormalOther) =>
             \A n \in BufferFields : app'[n] = app[n]
       /\ (\E n \in BufferFields : app'[n] # app[n] /\ app'[n] # <<>>) =>
             /\ app.input_mode = "Editing"
             /\ EditChar \/ EditEnter \/ EditBackspace]_vars

C35_Witness ==
    /\ pc = "loop"
    /\ app.input_mode = "Normal"
    /\ app.status_message = Some(<<"Inputs cleared">>)
    /\ app.current_focus = "InputSection"
    /\ app.problem_input = <<"q", "\n">>
    /\ app.active_input_field = 1

====
